---- MODULE Spec2Model ----
(***************************************************************************)
(* waybar-module-pacman-updates: the polling loop of src/src/main.rs (the  *)
(* startup sync thread, the dual-cadence main loop, the AUR cache) and the *)
(* package repositories of src/src/lib.rs.                                 *)
(*                                                                         *)
(* Text is modelled as a non-empty sequence of lines (the string is the    *)
(* lines joined by "\n", so "" is << <<>> >> and a trailing newline shows   *)
(* as a last empty line); a line is the sequence of its tokens, separated  *)
(* by single spaces.                                                       *)
(***************************************************************************)
EXTENDS Integers, Sequences, FiniteSets, TLC

\* ------------------------------------------------------------------ bounds
\* Seconds of monotonic time a behaviour may cover.
MaxTime == 4
\* Largest value given to --interval-seconds / --network-interval-seconds.
MaxIntervalArg == 3
\* Largest distance, in seconds, between the system clock and monotonic time.
MaxClockSkew == 1

\* ------------------------------------------------------- program constants
DefaultIntervalSeconds == 5
DefaultNetworkIntervalSeconds == 300

VARIABLES
    \* main()'s locals
    interval_seconds, network_interval_seconds, hide_aur, update_on_iter, iter,
    clean_output, tooltip_align, color_semver_updates,
    pacman,            \* (pacman_updates, pacman_stdout) of the current tick
    \* statics
    DATABASE_SYNC_MUTEX, AUR_CACHE,
    \* control
    pcMain, pcBg, panicCause,
    \* environment
    time,              \* monotonic seconds since the process started
    wall,              \* the reading SystemTime::now() returns
    \* observations
    emitted,           \* <<the line this pass printed to stdout>>, or <<>>
    tick,              \* index of the current pass of the loop (first is 0)
    tickLog,           \* what the current pass has done so far
    prevTick,          \* <<net, emitTime of the pass before>>, or <<>>
    lastNetTick,       \* <<tick>> of the last network refresh, or <<>>
    netGap,            \* <<ticks>> between the last two network refreshes, or <<>>
    aurCalls,          \* sync_aur_database calls made so far
    apiFailAt,         \* <<clock reading>> of the last sync_aur_database
                       \* attempt, if query_aur_api failed in it
    \* lib.rs
    OfficialRepo_packages, \* OfficialRepo.packages
    AURepo_packages,       \* AURepo.packages
    lastCall           \* the last refresh call: what it was given, what it found

repoVars == <<OfficialRepo_packages, AURepo_packages, lastCall>>
cfgVars == <<interval_seconds, network_interval_seconds, hide_aur, clean_output,
             tooltip_align, color_semver_updates>>
obsVars == <<emitted, tick, tickLog, prevTick, lastNetTick, netGap, aurCalls,
             apiFailAt>>
vars == <<interval_seconds, network_interval_seconds, hide_aur, clean_output,
          tooltip_align, color_semver_updates, update_on_iter, iter, pacman, DATABASE_SYNC_MUTEX, AUR_CACHE, pcMain, pcBg, panicCause,
          time, wall, emitted, tick, tickLog, prevTick, lastNetTick, netGap,
          aurCalls, apiFailAt, OfficialRepo_packages, AURepo_packages, lastCall>>

\* ------------------------------------------------------------------- text
EmptyText == << <<>> >>

IsEmpty(text) == text = EmptyText

\* JoinNewline with the two texts in the other order.
JoinNewlineReversed(a, b) == b \o a

\* format!("{}\n{}", a, b)
JoinNewline(a, b) == a \o b

\* Occurrences of " -> " in one line from token i on, matched left to right
\* without overlap (a match uses up the space before the next token).
RECURSIVE LineArrows(_, _)
LineArrows(line, i) ==
    IF i >= Len(line) THEN 0
    ELSE IF line[i] = "->" THEN 1 + LineArrows(line, i + 2)
    ELSE LineArrows(line, i + 1)

RECURSIVE ArrowCount(_)
ArrowCount(text) ==
    IF text = <<>> THEN 0
    ELSE LineArrows(Head(text), 2) + ArrowCount(Tail(text))

RECURSIVE TrimEnd(_)
TrimEnd(text) ==
    IF Len(text) > 1 /\ text[Len(text)] = <<>>
    THEN TrimEnd(SubSeq(text, 1, Len(text) - 1))
    ELSE text

\* --------------------------------------------------------------- versions
Versions == {"1.0.0", "1.1.0", "1.1.0-rc", "2.0.0", "r5.a", "r7.b",
             "0.47.0.r63.ccdddddd-2", "0.48.0.r62.gd775686-1"}

\* The integer of the first "r<digits>." in the string, <<>> when there is
\* none.
RevisionTag(v) ==
    CASE v = "r5.a" -> <<5>>
      [] v = "r7.b" -> <<7>>
      [] v = "0.47.0.r63.ccdddddd-2" -> <<63>>
      [] v = "0.48.0.r62.gd775686-1" -> <<62>>
      [] OTHER -> <<>>

\* lenient_semver::parse: <<[major, minor, patch, pre]>>, <<>> when it fails.
\* pre is 0 for no pre-release tag, else the rank of the tag among the tags
\* (r62.gd775686-1 < r63.ccdddddd-2 < rc).
SemverParse(v) ==
    CASE v = "1.0.0" -> <<[major |-> 1, minor |-> 0, patch |-> 0, pre |-> 0]>>
      [] v = "1.1.0" -> <<[major |-> 1, minor |-> 1, patch |-> 0, pre |-> 0]>>
      [] v = "1.1.0-rc" -> <<[major |-> 1, minor |-> 1, patch |-> 0, pre |-> 3]>>
      [] v = "2.0.0" -> <<[major |-> 2, minor |-> 0, patch |-> 0, pre |-> 0]>>
      [] v = "0.47.0.r63.ccdddddd-2" ->
            <<[major |-> 0, minor |-> 47, patch |-> 0, pre |-> 2]>>
      [] v = "0.48.0.r62.gd775686-1" ->
            <<[major |-> 0, minor |-> 48, patch |-> 0, pre |-> 1]>>
      [] OTHER -> <<>>

\* Prerelease's order: no tag is greater than any tag.
PreGreater(a, b) == IF a = 0 THEN b # 0 ELSE b # 0 /\ a > b

SemverGreater(a, b) ==
    \/ a.major > b.major
    \/ a.major = b.major /\ a.minor > b.minor
    \/ a.major = b.major /\ a.minor = b.minor /\ a.patch > b.patch
    \/ a.major = b.major /\ a.minor = b.minor /\ a.patch = b.patch
       /\ PreGreater(a.pre, b.pre)

\* is_version_newer is not among the sources; its unit tests fix it to the
\* package manager's own ordering (`vercmp`): a version is "version-release",
\* split at the last hyphen, and each part is a run of segments, all digits or
\* all letters, compared left to right.
Num(n) == [num |-> TRUE, val |-> n]

\* A segment of letters; val is its rank in byte order among the segments used
\* (a < b < ccdddddd < gd < r < rc).
Alpha(rank) == [num |-> FALSE, val |-> rank]

Evr(v) ==
    CASE v = "1.0.0" -> [ver |-> <<Num(1), Num(0), Num(0)>>, rel |-> <<>>]
      [] v = "1.1.0" -> [ver |-> <<Num(1), Num(1), Num(0)>>, rel |-> <<>>]
      [] v = "1.1.0-rc" -> [ver |-> <<Num(1), Num(1), Num(0)>>, rel |-> <<Alpha(6)>>]
      [] v = "2.0.0" -> [ver |-> <<Num(2), Num(0), Num(0)>>, rel |-> <<>>]
      [] v = "r5.a" -> [ver |-> <<Alpha(5), Num(5), Alpha(1)>>, rel |-> <<>>]
      [] v = "r7.b" -> [ver |-> <<Alpha(5), Num(7), Alpha(2)>>, rel |-> <<>>]
      [] v = "0.47.0.r63.ccdddddd-2" ->
            [ver |-> <<Num(0), Num(47), Num(0), Alpha(5), Num(63), Alpha(3)>>,
             rel |-> <<Num(2)>>]
      [] v = "0.48.0.r62.gd775686-1" ->
            [ver |-> <<Num(0), Num(48), Num(0), Alpha(5), Num(62), Alpha(4),
                       Num(775686)>>,
             rel |-> <<Num(1)>>]
      [] OTHER -> [ver |-> <<>>, rel |-> <<>>]

\* 1, 0 or -1: digits beat letters, digits compare as numbers, letters in byte
\* order; when one side runs out, the other is newer unless what it has left
\* starts with letters.
RECURSIVE SegmentsCmp(_, _)
SegmentsCmp(one, two) ==
    IF one = <<>> /\ two = <<>> THEN 0
    ELSE IF one = <<>> THEN (IF Head(two).num THEN -1 ELSE 1)
    ELSE IF two = <<>> THEN (IF Head(one).num THEN 1 ELSE -1)
    ELSE IF Head(one).num /\ ~Head(two).num THEN 1
    ELSE IF ~Head(one).num /\ Head(two).num THEN -1
    ELSE IF Head(one).val > Head(two).val THEN 1
    ELSE IF Head(one).val < Head(two).val THEN -1
    ELSE SegmentsCmp(Tail(one), Tail(two))

\* The releases are compared only when both versions carry one.
VerCmp(a, b) ==
    LET c == SegmentsCmp(Evr(a).ver, Evr(b).ver)
    IN  IF c # 0 THEN c
        ELSE IF Evr(a).rel # <<>> /\ Evr(b).rel # <<>>
        THEN SegmentsCmp(Evr(a).rel, Evr(b).rel)
        ELSE 0

is_version_newer(candidate, baseline) == VerCmp(candidate, baseline) = 1

\* ------------------------------------------------------ external commands
\* `checkupdates --nosync --nocolor`: the spawn may fail; a process that ran
\* ends with an exit code (<<c>>) or by a signal (<<>>).
PkgLineA == <<"foo", "1.0.0", "->", "1.1.0">>
PkgLineB == <<"bar", "r5.a", "->", "r7.b">>

CheckupdatesStdouts ==
    { EmptyText,
      <<PkgLineA, <<>>>>,
      <<PkgLineA, PkgLineB, <<>>>>,
      <<<<"error:", "cannot", "fetch">>, <<>>>> }

CheckupdatesResults ==
    { [spawned |-> FALSE, code |-> <<>>, stdout |-> EmptyText] }
    \cup [spawned : {TRUE}, code : {<<0>>, <<1>>, <<>>}, stdout : CheckupdatesStdouts]

\* `pacman -Qm`: lines "name version". Command::output() is Err when the spawn
\* fails, else Ok with the exit status and the stdout.
PacmanQmStdouts ==
    { EmptyText,
      <<<<"foo", "1.0.0">>, <<>>>>,
      <<<<"foo", "1.0.0">>, <<"baz", "0.47.0.r63.ccdddddd-2">>, <<>>>> }

PacmanQmResults ==
    { [spawned |-> FALSE, success |-> FALSE, stdout |-> EmptyText],
      [spawned |-> TRUE, success |-> FALSE, stdout |-> EmptyText] }
    \cup [spawned : {TRUE}, success : {TRUE}, stdout : PacmanQmStdouts]

\* query_aur_api: Err, or Ok(results).
AurApiResults ==
    { [ok |-> FALSE, results |-> <<>>] }
    \cup [ok : {TRUE},
          results : { <<>>,
                      <<[name |-> "foo", version |-> "1.0.0"]>>,
                      <<[name |-> "foo", version |-> "1.1.0"]>>,
                      <<[name |-> "foo", version |-> "1.1.0"],
                        [name |-> "baz", version |-> "0.48.0.r62.gd775686-1"]>> }]

\* ------------------------------------------------------------ get_updates
get_updates(r) ==
    IF ~r.spawned THEN [panic |-> TRUE, count |-> 0, out |-> EmptyText]
    ELSE IF r.code = <<>> THEN [panic |-> FALSE, count |-> 0, out |-> EmptyText]
    ELSE IF IsEmpty(r.stdout) THEN [panic |-> FALSE, count |-> 0, out |-> EmptyText]
    ELSE [panic |-> FALSE, count |-> ArrowCount(r.stdout), out |-> r.stdout]

\* ------------------------------------------------------ sync_aur_database
\* The early return: the cache is younger than network_interval_seconds.
Throttled(cache, now, net) ==
    /\ cache.ts # <<>>
    /\ now >= cache.ts[1]
    /\ now - cache.ts[1] < net

local_packages(stdout) ==
    LET ls == SelectSeq(stdout, LAMBDA l : Len(l) >= 2)
    IN  [i \in 1..Len(ls) |-> [name |-> ls[i][1], version |-> ls[i][2]]]

\* aur_packages.iter().find(|p| p.name == *local_name)
RECURSIVE FindAur(_, _)
FindAur(aur_packages, name) ==
    IF aur_packages = <<>> THEN <<>>
    ELSE IF Head(aur_packages).name = name THEN <<Head(aur_packages)>>
    ELSE FindAur(Tail(aur_packages), name)

RECURSIVE AurUpdates(_, _)
AurUpdates(locals, aur_packages) ==
    IF locals = <<>> THEN <<>>
    ELSE LET l == Head(locals)
             f == FindAur(aur_packages, l.name)
             rest == AurUpdates(Tail(locals), aur_packages)
         IN  IF f # <<>> /\ is_version_newer(f[1].version, l.version)
             THEN <<<<l.name, l.version, "->", f[1].version>>>> \o rest
             ELSE rest

\* updates.join("\n")
JoinLines(updates) == IF updates = <<>> THEN EmptyText ELSE updates

sync_aur_database(cache, now, net, qm, api) ==
    IF Throttled(cache, now, net) THEN cache
    ELSE IF ~qm.spawned THEN cache
    ELSE LET locals == local_packages(qm.stdout)
         IN  IF locals = <<>>
             THEN [ts |-> <<now>>, count |-> 0, out |-> EmptyText]
             ELSE IF api.ok
             THEN LET updates == AurUpdates(locals, api.results)
                  IN  [ts |-> <<now>>, count |-> Len(updates), out |-> JoinLines(updates)]
             ELSE [cache EXCEPT !.ts = <<now>>]

\* The collaborator of a sync_aur_database call that failed: "spawn" (`pacman
\* -Qm` did not start), "exit" (it exited non-zero and printed nothing), "api"
\* (query_aur_api returned Err), or "none".
AurFailure(cache, now, net, qm, api) ==
    IF Throttled(cache, now, net) THEN "none"
    ELSE IF ~qm.spawned THEN "spawn"
    ELSE IF ~qm.success /\ IsEmpty(qm.stdout) THEN "exit"
    ELSE IF local_packages(qm.stdout) # <<>> /\ ~api.ok THEN "api"
    ELSE "none"

\* get_aur_updates handing out the count without the listing.
get_aur_updates_count_only(cache) == [count |-> cache.count, out |-> EmptyText]

get_aur_updates(cache) == [count |-> cache.count, out |-> cache.out]

\* --------------------------------------------------------- lib.rs: Package
\* An empty token in a line stands for one more space at that place (a line
\* that starts with a space has an empty first token).

\* Package::determine_update_type
determine_update_type(old_ver, new_ver) ==
    LET old_parsed == SemverParse(old_ver)
        new_parsed == SemverParse(new_ver)
    IN  IF old_parsed # <<>> /\ new_parsed # <<>>
        THEN LET old == old_parsed[1]
                 new == new_parsed[1]
             IN  IF new.major > old.major THEN "Major"
                 ELSE IF new.minor > old.minor THEN "Minor"
                 ELSE IF new.patch > old.patch THEN "Patch"
                 ELSE IF PreGreater(new.pre, old.pre) THEN "Pre"
                 ELSE "Other"
        ELSE "Other"

Words(line) == SelectSeq(line, LAMBDA t : t # "")

\* PACKAGE_REGEX ^(\S+)\s+(\S+)\s+->\s+(\S+)$ and Package::try_from:
\* <<package>>, or <<>> for Err.
try_from(line) ==
    LET w == Words(line)
    IN  IF /\ line # <<>>
           /\ Head(line) # ""
           /\ line[Len(line)] # ""
           /\ Len(w) = 4
           /\ w[3] = "->"
        THEN <<[name |-> w[1], old_version |-> w[2], new_version |-> w[4],
                update_type |-> determine_update_type(w[2], w[4])]>>
        ELSE <<>>

\* str::lines(): a final empty line is not a line.
Lines(text) ==
    IF text[Len(text)] = <<>> THEN SubSeq(text, 1, Len(text) - 1) ELSE text

\* ------------------------------------------------------------ the summary
\* str::split_whitespace over the whole text.
RECURSIVE SplitWhitespace(_)
SplitWhitespace(text) ==
    IF text = <<>> THEN <<>>
    ELSE SelectSeq(Head(text), LAMBDA t : t # "") \o SplitWhitespace(Tail(text))

\* str::len of a word.
Width(word) ==
    CASE word \in {"->"} -> 2
      [] word \in {"foo", "bar", "baz", "qux"} -> 3
      [] word \in {"r5.a", "r7.b", "quux"} -> 4
      [] word \in {"1.0.0", "1.1.0", "2.0.0", "fetch"} -> 5
      [] word \in {"error:", "cannot"} -> 6
      [] word \in {"1.1.0-rc"} -> 8
      [] word \in {"0.47.0.r63.ccdddddd-2", "0.48.0.r62.gd775686-1"} -> 21
      [] OTHER -> 0

Max(a, b) == IF a >= b THEN a ELSE b

\* Padding with every column as wide as the first word of the text.
PaddingOfFirstWord(words) ==
    [k \in 0..3 |-> IF words = <<>> THEN 0 ELSE Width(words[1])]

\* main.rs 118-124: padding[index % 4] is the greatest len of the words at
\* the indexes (from 0) that are index modulo 4.
RECURSIVE PaddingFrom(_, _, _)
PaddingFrom(words, index, padding) ==
    IF index >= Len(words) THEN padding
    ELSE PaddingFrom(words, index + 1,
                     [padding EXCEPT ![index % 4] = Max(@, Width(words[index + 1]))])

Padding(words) == PaddingFrom(words, 0, [k \in 0..3 |-> 0])

\* word.to_string() + " ".repeat(width - word.len()), as the tokens a later
\* join(" ") gives: the word, then one empty token for each space added.
PadWord(word, width) == <<word>> \o [j \in 1..(width - Width(word)) |-> ""]

\* main.rs 130-140: every word padded to its column, four to a line.
RECURSIVE Chunks4(_, _, _)
Chunks4(words, index, padding) ==
    IF index >= Len(words) THEN <<>>
    ELSE LET last == IF index + 4 <= Len(words) THEN index + 4 ELSE Len(words)
             RECURSIVE JoinFrom(_)
             JoinFrom(i) ==
                 IF i >= last THEN <<>>
                 ELSE PadWord(words[i + 1], padding[i % 4]) \o JoinFrom(i + 1)
         IN  <<JoinFrom(index)>> \o Chunks4(words, index + 4, padding)

AlignColumns(stdout) ==
    LET words == SplitWhitespace(stdout)
        lines == Chunks4(words, 0, Padding(words))
    IN  IF lines = <<>> THEN EmptyText ELSE lines

\* main.rs 58: semver_updates_colors, by update type.
ColorOf(update_type) ==
    CASE update_type = "Major" -> "ff0000"
      [] update_type = "Minor" -> "00ff00"
      [] update_type = "Patch" -> "0000ff"
      [] update_type = "Pre" -> "ff00ff"
      [] OTHER -> "ffffff"

NoColors(text) == [i \in 1..Len(text) |-> <<>>]

\* What the formatting of main.rs 117-146 leaves: the lines, the font of the
\* span around them (<<>>: no span) and, line by line, the colour of the span
\* around the line (<<>>: no span).
Plain(text) == [text |-> text, font |-> <<>>, colors |-> NoColors(text)]

\* The tooltip when nothing is to be listed (main.rs 150).
SystemUpdated == <<<<"System", "updated">>>>

\* main.rs 116-151: the line printed for the count, the merged stdout and its
\* formatted form. trim_end() finds nothing to trim behind a closing span.
Summary(updates, stdout, formatted) ==
    IF updates > 0
    THEN LET tooltip == IF formatted.font # <<>> THEN formatted.text
                        ELSE TrimEnd(formatted.text)
         IN  [text |-> updates, tooltip |-> tooltip, class |-> "has-updates",
              font |-> formatted.font,
              colors |-> SubSeq(formatted.colors, 1, Len(tooltip))]
    ELSE [text |-> IF clean_output THEN "" ELSE 0, tooltip |-> SystemUpdated,
          class |-> "updated", font |-> <<>>, colors |-> NoColors(SystemUpdated)]

\* Render with the !hide_aur tests of main.rs 108-111 left out.
RenderIgnoringHide(pac, aur, hide) ==
    LET updates == pac.count + aur.count
        stdout == IF ~IsEmpty(aur.out) /\ ~IsEmpty(pac.out)
                  THEN JoinNewline(pac.out, aur.out)
                  ELSE IF ~IsEmpty(aur.out) THEN aur.out
                  ELSE pac.out
    IN  Summary(updates, stdout, Plain(stdout))

\* highlight_semantic_version: a line that parses as a package is padded
\* field by field (when a padding is given) and wrapped in a span of the colour
\* of its update type; any other line is left as it is.
HighlightLine(line, padding) ==
    LET parsed == try_from(line)
    IN  IF parsed = <<>> THEN [line |-> line, color |-> <<>>]
        ELSE LET w == Words(line)
             IN  [line |-> IF padding = <<>> THEN line
                           ELSE PadWord(w[1], padding[1][0]) \o PadWord(w[2], padding[1][1])
                                \o PadWord(w[3], padding[1][2]) \o PadWord(w[4], padding[1][3]),
                  color |-> <<ColorOf(parsed[1].update_type)>>]

highlight_semantic_version(stdout, padding) ==
    LET lines == Lines(stdout)
    IN  IF lines = <<>> THEN [text |-> EmptyText, colors |-> NoColors(EmptyText)]
        ELSE [text |-> [i \in 1..Len(lines) |-> HighlightLine(lines[i], padding).line],
              colors |-> [i \in 1..Len(lines) |-> HighlightLine(lines[i], padding).color]]

\* main.rs 56: tooltip_font.
DefaultTooltipFont == "monospace"

\* main.rs 117-146: the merged stdout formatted as the options ask.
Format(stdout) ==
    IF tooltip_align
    THEN IF color_semver_updates
         THEN LET h == highlight_semantic_version(stdout, <<Padding(SplitWhitespace(stdout))>>)
              IN  [text |-> h.text, font |-> <<DefaultTooltipFont>>, colors |-> h.colors]
         ELSE [text |-> AlignColumns(stdout), font |-> <<DefaultTooltipFont>>,
               colors |-> NoColors(AlignColumns(stdout))]
    ELSE IF color_semver_updates
    THEN LET h == highlight_semantic_version(stdout, <<>>)
         IN  [text |-> h.text, font |-> <<>>, colors |-> h.colors]
    ELSE Plain(stdout)

\* main.rs 108-151: the line printed.
Render(pac, aur, hide) ==
    LET updates == pac.count + (IF ~hide THEN aur.count ELSE 0)
        stdout == IF ~hide /\ ~IsEmpty(aur.out) /\ ~IsEmpty(pac.out)
                  THEN JoinNewline(pac.out, aur.out)
                  ELSE IF ~hide /\ ~IsEmpty(aur.out) THEN aur.out
                  ELSE pac.out
    IN  Summary(updates, stdout, Format(stdout))

\* -------------------------------------------------------------- scheduler
UpdateOnIter(net, interval) == net \div interval

\* NetworkDue with the comparison off by one.
NetworkDueLate(i, n) == i > n

\* main.rs 101: iter >= update_on_iter.
NetworkDue(i, n) == i >= n

\* SleepDuration with the sleep left out.
SleepNone(interval) == 0

\* main.rs 95: sleep_duration.
SleepDuration(interval) == interval

\* The value of (pacman_updates, pacman_stdout) outside the loop body's scope.
NoUpdates == [count |-> 0, out |-> EmptyText]

\* AfterNetworkBranch with the network branch ending the pass's checks
\* (a `continue`-like skip of get_updates()).
AfterNetworkBranchSkippingLocal == "emit"

\* main.rs 105-106: after the network branch control falls through to
\* get_updates().
AfterNetworkBranch == "get_updates"

\* start: the time the pass began; due: the network cadence fired; net, local:
\* `checkupdates` / `checkupdates --nosync` runs; aurCalls: sync_aur_database
\* calls; aurEnum: those that got past the early return; aurReads:
\* get_aur_updates calls; emits: lines printed; emitTime: <<time of the print>>;
\* pac: what get_updates returned.
NewTickLog(t, due) ==
    [start |-> t, due |-> due, net |-> 0, aurCalls |-> 0, aurEnum |-> 0,
     local |-> 0, aurReads |-> 0, emits |-> 0, emitTime |-> <<>>,
     pac |-> NoUpdates]

\* main.rs 64-71: the values the two period options may be given. (--help,
\* which returns before the loop, and a value that does not parse, which
\* panics before the loop, start no loop and are left out.)
IntervalArgs == (0..MaxIntervalArg)

\* before: the snapshot the call found; failed: a command of the call did not
\* spawn or did not succeed; stdout: what the parsed command printed.
NoCall == [op |-> "none", before |-> <<>>, failed |-> FALSE, panicked |-> FALSE,
           stdout |-> EmptyText]

RepoIdle ==
    /\ OfficialRepo_packages = <<>>
    /\ AURepo_packages = <<>>
    /\ lastCall = NoCall

\* main.rs 53-57: the options as they are without arguments.
DefaultOptions ==
    /\ clean_output = FALSE
    /\ tooltip_align = FALSE
    /\ color_semver_updates = FALSE

\* main.rs 22-26, 46-49: the statics and the loop's locals before the first
\* pass.
Started ==
    /\ update_on_iter = 0
    /\ iter = 0
    /\ pacman = NoUpdates
    /\ DATABASE_SYNC_MUTEX = [holder |-> "none", poisoned |-> FALSE]
    /\ AUR_CACHE = [ts |-> <<>>, count |-> 0, out |-> EmptyText]
    /\ pcMain = "args"
    /\ pcBg = "lock"
    /\ panicCause = "none"
    /\ time = 0
    /\ wall = 0
    /\ emitted = <<>>
    /\ tick = 0
    /\ tickLog = NewTickLog(0, FALSE)
    /\ prevTick = <<>>
    /\ lastNetTick = <<>>
    /\ netGap = <<>>
    /\ aurCalls = 0
    /\ apiFailAt = <<>>

\* Every pair of periods, --hide-aur given or not, the display options left
\* at their defaults.
Init ==
    /\ RepoIdle
    /\ \/ /\ interval_seconds = DefaultIntervalSeconds
          /\ network_interval_seconds = DefaultNetworkIntervalSeconds
       \/ /\ interval_seconds \in IntervalArgs
          /\ network_interval_seconds \in IntervalArgs
    /\ hide_aur \in BOOLEAN
    /\ DefaultOptions
    /\ Started

Alive == pcMain # "panicked"

\* main.rs 95-99: the zero check and update_on_iter.
MainStart ==
    /\ pcMain = "args"
    /\ IF interval_seconds = 0 \/ network_interval_seconds = 0
       THEN /\ pcMain' = "panicked"
            /\ panicCause' = "config"
            /\ UNCHANGED update_on_iter
       ELSE /\ pcMain' = "loop"
            /\ update_on_iter' = UpdateOnIter(network_interval_seconds, interval_seconds)
            /\ UNCHANGED panicCause
    /\ UNCHANGED <<repoVars, cfgVars, iter, pacman, DATABASE_SYNC_MUTEX, AUR_CACHE, pcBg,
                   time, wall, obsVars>>

\* main.rs 100-101: the top of the loop.
LoopTop ==
    /\ pcMain = "loop"
    /\ pcMain' = IF NetworkDue(iter, update_on_iter) THEN "sync_lock" ELSE "get_updates"
    /\ tickLog' = NewTickLog(time, NetworkDue(iter, update_on_iter))
    /\ prevTick' = IF tick = 0 THEN <<>>
                   ELSE <<[net |-> tickLog.net, emitTime |-> tickLog.emitTime]>>
    /\ emitted' = <<>>
    /\ UNCHANGED <<repoVars, cfgVars, update_on_iter, iter, pacman, DATABASE_SYNC_MUTEX,
                   AUR_CACHE, pcBg, panicCause, time, wall, tick,
                   lastNetTick, netGap, aurCalls, apiFailAt>>

\* main.rs 102, 159: DATABASE_SYNC_MUTEX.lock().unwrap() in the main thread.
MainSyncLock ==
    /\ pcMain = "sync_lock"
    /\ DATABASE_SYNC_MUTEX.holder = "none"
    /\ IF DATABASE_SYNC_MUTEX.poisoned
       THEN /\ pcMain' = "panicked"
            /\ panicCause' = "poison"
            /\ UNCHANGED DATABASE_SYNC_MUTEX
       ELSE /\ pcMain' = "sync_run"
            /\ DATABASE_SYNC_MUTEX' = [DATABASE_SYNC_MUTEX EXCEPT !.holder = "main"]
            /\ UNCHANGED panicCause
    /\ UNCHANGED <<repoVars, cfgVars, update_on_iter, iter, pacman, AUR_CACHE, pcBg,
                   time, wall, obsVars>>

\* main.rs 161-165: `checkupdates --nocolor` in the main thread, then the
\* guard is dropped (poisoning the mutex when dropped by a panic).
MainSyncRun ==
    /\ pcMain = "sync_run"
    /\ \E spawned \in BOOLEAN :
          IF spawned
          THEN /\ pcMain' = "aur_sync"
               /\ DATABASE_SYNC_MUTEX' = [DATABASE_SYNC_MUTEX EXCEPT !.holder = "none"]
               /\ UNCHANGED panicCause
          ELSE /\ pcMain' = "panicked"
               /\ panicCause' = "spawn"
               /\ DATABASE_SYNC_MUTEX' = [holder |-> "none", poisoned |-> TRUE]
    /\ tickLog' = [tickLog EXCEPT !.net = @ + 1]
    /\ lastNetTick' = <<tick>>
    /\ netGap' = IF lastNetTick = <<>> THEN netGap ELSE <<tick - lastNetTick[1]>>
    /\ UNCHANGED <<repoVars, cfgVars, update_on_iter, iter, pacman, AUR_CACHE, pcBg,
                   time, wall, emitted, tick, prevTick, aurCalls, apiFailAt>>

\* main.rs 103-104: sync_aur_database(network_interval_seconds); iter = 0.
MainSyncAur ==
    /\ pcMain = "aur_sync"
    /\ \E qm \in PacmanQmResults, api \in AurApiResults :
          LET fail == AurFailure(AUR_CACHE, wall, network_interval_seconds, qm, api)
          IN  /\ AUR_CACHE' = sync_aur_database(AUR_CACHE, wall,
                                                network_interval_seconds, qm, api)
              /\ tickLog' = [tickLog EXCEPT
                     !.aurCalls = @ + 1,
                     !.aurEnum = @ + (IF Throttled(AUR_CACHE, wall, network_interval_seconds)
                                      THEN 0 ELSE 1)]
              /\ apiFailAt' = IF fail = "api" THEN <<wall>>
                              ELSE IF Throttled(AUR_CACHE, wall, network_interval_seconds)
                              THEN apiFailAt
                              ELSE <<>>
    /\ iter' = 0
    /\ pcMain' = AfterNetworkBranch
    /\ aurCalls' = aurCalls + 1
    /\ UNCHANGED <<repoVars, cfgVars, update_on_iter, pacman, DATABASE_SYNC_MUTEX, pcBg,
                   panicCause, time, wall, emitted, tick, prevTick, lastNetTick,
                   netGap>>

\* main.rs 106: get_updates().
MainGetUpdates ==
    /\ pcMain = "get_updates"
    /\ \E r \in CheckupdatesResults :
          LET g == get_updates(r)
          IN  IF g.panic
              THEN /\ pcMain' = "panicked"
                   /\ panicCause' = "spawn"
                   /\ UNCHANGED pacman
              ELSE /\ pcMain' = "emit"
                   /\ pacman' = [count |-> g.count, out |-> g.out]
                   /\ UNCHANGED panicCause
    /\ tickLog' = [tickLog EXCEPT !.local = @ + 1, !.pac = pacman']
    /\ UNCHANGED <<repoVars, cfgVars, update_on_iter, iter, DATABASE_SYNC_MUTEX, AUR_CACHE,
                   pcBg, time, wall, emitted, tick, prevTick, lastNetTick, netGap,
                   aurCalls, apiFailAt>>

\* main.rs 107-152: get_aur_updates(), the summary, println!, iter += 1.
MainEmit ==
    /\ pcMain = "emit"
    /\ emitted' = <<Render(pacman, get_aur_updates(AUR_CACHE), hide_aur)>>
    /\ iter' = iter + 1
    /\ pcMain' = "sleep"
    /\ tickLog' = [tickLog EXCEPT !.aurReads = @ + 1, !.emits = @ + 1,
                                  !.emitTime = <<time>>]
    /\ pacman' = NoUpdates
    /\ UNCHANGED <<repoVars, cfgVars, update_on_iter, DATABASE_SYNC_MUTEX, AUR_CACHE,
                   pcBg, panicCause, time, wall, tick, prevTick, lastNetTick,
                   netGap, aurCalls, apiFailAt>>

\* main.rs 153: thread::sleep(sleep_duration).
MainSleep ==
    /\ pcMain = "sleep"
    /\ time + SleepDuration(interval_seconds) <= MaxTime
    /\ time' = time + SleepDuration(interval_seconds)
    /\ wall' = wall + SleepDuration(interval_seconds)
    /\ tick' = tick + 1
    /\ pcMain' = "loop"
    /\ UNCHANGED <<repoVars, cfgVars, update_on_iter, iter, pacman, DATABASE_SYNC_MUTEX,
                   AUR_CACHE, pcBg, panicCause, emitted, tickLog, prevTick,
                   lastNetTick, netGap, aurCalls, apiFailAt>>

\* main.rs 46-48, 159: the startup thread takes the lock.
BgLock ==
    /\ Alive
    /\ pcBg = "lock"
    /\ DATABASE_SYNC_MUTEX.holder = "none"
    /\ IF DATABASE_SYNC_MUTEX.poisoned
       THEN /\ pcBg' = "panicked"
            /\ UNCHANGED DATABASE_SYNC_MUTEX
       ELSE /\ pcBg' = "run"
            /\ DATABASE_SYNC_MUTEX' = [DATABASE_SYNC_MUTEX EXCEPT !.holder = "bg"]
    /\ UNCHANGED <<repoVars, cfgVars, update_on_iter, iter, pacman, AUR_CACHE, pcMain,
                   panicCause, time, wall, obsVars>>

\* main.rs 161-165: `checkupdates --nocolor` in the startup thread.
BgRun ==
    /\ Alive
    /\ pcBg = "run"
    /\ \E spawned \in BOOLEAN :
          IF spawned
          THEN /\ pcBg' = "done"
               /\ DATABASE_SYNC_MUTEX' = [DATABASE_SYNC_MUTEX EXCEPT !.holder = "none"]
          ELSE /\ pcBg' = "panicked"
               /\ DATABASE_SYNC_MUTEX' = [holder |-> "none", poisoned |-> TRUE]
    /\ UNCHANGED <<repoVars, cfgVars, update_on_iter, iter, pacman, AUR_CACHE, pcMain,
                   panicCause, time, wall, obsVars>>

\* A second passes while the main thread is blocked in sync_database: running
\* `checkupdates`, or waiting for the lock the startup thread holds. (Outside
\* sync_database the main thread's time passes in thread::sleep.)
MainBlocked ==
    \/ pcMain = "sync_run"
    \/ pcMain = "sync_lock" /\ DATABASE_SYNC_MUTEX.holder = "bg"

Elapse ==
    /\ MainBlocked
    /\ time < MaxTime
    /\ time' = time + 1
    /\ wall' = wall + 1
    /\ UNCHANGED <<repoVars, cfgVars, update_on_iter, iter, pacman, DATABASE_SYNC_MUTEX,
                   AUR_CACHE, pcMain, pcBg, panicCause, obsVars>>

\* The system clock is set (SystemTime is not monotonic). sync_aur_database is
\* the only reader of the clock, so a step matters only right before it reads.
ClockStep ==
    /\ pcMain = "aur_sync"
    /\ wall' \in {w \in (time - MaxClockSkew)..(time + MaxClockSkew) : w >= 0 /\ w # wall}
    /\ UNCHANGED <<repoVars, cfgVars, update_on_iter, iter, pacman, DATABASE_SYNC_MUTEX,
                   AUR_CACHE, pcMain, pcBg, panicCause, time, obsVars>>

Next ==
    \/ MainStart
    \/ LoopTop
    \/ MainSyncLock
    \/ MainSyncRun
    \/ MainSyncAur
    \/ MainGetUpdates
    \/ MainEmit
    \/ MainSleep
    \/ BgLock
    \/ BgRun
    \/ Elapse
    \/ ClockStep

Spec == Init /\ [][Next]_vars

\* The period of both cadences in the runs that vary the display options.
RenderPeriod == MaxIntervalArg - 1

\* The same program started with every combination of --hide-aur,
\* --no-zero-output, --tooltip-align-columns and --color-semver-updates, both
\* periods RenderPeriod seconds.
InitRender ==
    /\ RepoIdle
    /\ interval_seconds = RenderPeriod
    /\ network_interval_seconds = RenderPeriod
    /\ hide_aur \in BOOLEAN
    /\ clean_output \in BOOLEAN
    /\ tooltip_align \in BOOLEAN
    /\ color_semver_updates \in BOOLEAN
    /\ Started

SpecRender == InitRender /\ [][Next]_vars

\* ================================================== lib.rs: the repositories
\* .lines().filter_map(|line| Package::try_from(line.to_string()).ok()).collect()
RECURSIVE CollectPackages(_)
CollectPackages(lines) ==
    IF lines = <<>> THEN <<>>
    ELSE try_from(Head(lines)) \o CollectPackages(Tail(lines))

ParsePackages(stdout) == CollectPackages(Lines(stdout))

\* What Command::output() gives: Err (not spawned), or Ok with
\* status.success() and the stdout.
RepoStdouts ==
    { EmptyText,
      <<PkgLineA, <<>>>>,
      <<PkgLineA, <<"error:", "cannot", "fetch">>, PkgLineB, <<>>>>,
      <<<<"", "foo", "1.0.0", "->", "1.1.0">>, <<>>>>,
      <<<<"baz", "1.0.0", "->", "1.1.0-rc">>>>,
      <<<<"qux", "2.0.0", "->", "1.1.0">>, <<"quux", "1.1.0", "->", "1.1.0">>, <<>>>> }

RepoCmdResults ==
    { [spawned |-> FALSE, success |-> FALSE, stdout |-> EmptyText] }
    \cup [spawned : {TRUE}, success : BOOLEAN, stdout : RepoStdouts]

\* common_updates with a failed command clearing the snapshot.
common_updates_clearing(packages, sync, r) ==
    IF r.spawned /\ r.success THEN ParsePackages(r.stdout)
    ELSE <<>>

\* common_updates with an output that holds no record leaving the snapshot.
common_updates_keeping_on_empty(packages, sync, r) ==
    IF r.spawned /\ r.success /\ ParsePackages(r.stdout) # <<>>
    THEN ParsePackages(r.stdout)
    ELSE packages

\* OfficialRepo::common_updates: the new self.packages.
common_updates(packages, sync, r) ==
    IF r.spawned /\ r.success THEN ParsePackages(r.stdout)
    ELSE packages

\* lib.rs 131: .stdout(Stdio::piped()) on the pacman child.
PacmanStdoutPiped == TRUE

\* Child::stdout: Some exactly when the child's stdout was piped.
ChildStdout(piped) == IF piped THEN <<"pipe">> ELSE <<>>

\* AURepo::sync_updates: the new self.packages, and whether
\* pacman.stdout.unwrap() panicked.
AURepo_sync_updates(packages, pacman_spawned, r) ==
    IF ~pacman_spawned THEN [packages |-> packages, panicked |-> FALSE]
    ELSE IF ChildStdout(PacmanStdoutPiped) = <<>>
    THEN [packages |-> packages, panicked |-> TRUE]
    ELSE IF r.spawned /\ r.success
    THEN [packages |-> ParsePackages(r.stdout), panicked |-> FALSE]
    ELSE [packages |-> packages, panicked |-> FALSE]

schedVars == <<interval_seconds, network_interval_seconds, hide_aur,
               clean_output, tooltip_align, color_semver_updates, update_on_iter, iter, pacman, DATABASE_SYNC_MUTEX, AUR_CACHE,
               pcMain, pcBg, panicCause, time, wall, emitted, tick, tickLog,
               prevTick, lastNetTick, netGap, aurCalls, apiFailAt>>

\* The repositories are used on their own: no loop of main.rs is running.
SchedIdle ==
    /\ interval_seconds = DefaultIntervalSeconds
    /\ network_interval_seconds = DefaultNetworkIntervalSeconds
    /\ hide_aur = FALSE
    /\ DefaultOptions
    /\ Started

\* #[derive(Default)]: both repositories start with no packages.
InitRepo == SchedIdle /\ RepoIdle

\* OfficialRepo::local_updates
OfficialLocalUpdates ==
    /\ \E r \in RepoCmdResults :
          /\ OfficialRepo_packages' = common_updates(OfficialRepo_packages, FALSE, r)
          /\ lastCall' = [op |-> "OfficialRepo.local_updates",
                          before |-> OfficialRepo_packages,
                          failed |-> ~r.spawned \/ ~r.success,
                          panicked |-> FALSE,
                          stdout |-> r.stdout]
    /\ UNCHANGED <<AURepo_packages, schedVars>>

\* OfficialRepo::sync_updates
OfficialSyncUpdates ==
    /\ \E r \in RepoCmdResults :
          /\ OfficialRepo_packages' = common_updates(OfficialRepo_packages, TRUE, r)
          /\ lastCall' = [op |-> "OfficialRepo.sync_updates",
                          before |-> OfficialRepo_packages,
                          failed |-> ~r.spawned \/ ~r.success,
                          panicked |-> FALSE,
                          stdout |-> r.stdout]
    /\ UNCHANGED <<AURepo_packages, schedVars>>

\* AURepo::local_updates: an empty body.
AURLocalUpdates ==
    /\ lastCall' = [op |-> "AURepo.local_updates", before |-> AURepo_packages,
                    failed |-> FALSE, panicked |-> FALSE, stdout |-> EmptyText]
    /\ UNCHANGED <<OfficialRepo_packages, AURepo_packages, schedVars>>

\* AURepo::sync_updates: `pacman -Qm` piped into `aur vercmp`. The pacman child
\* is never waited for, so how it exits reaches the code only through what
\* `aur vercmp` makes of its output.
AURSyncUpdates ==
    /\ \E pacman_spawned \in BOOLEAN, r \in RepoCmdResults :
          LET res == AURepo_sync_updates(AURepo_packages, pacman_spawned, r)
          IN  /\ AURepo_packages' = res.packages
              /\ lastCall' = [op |-> "AURepo.sync_updates",
                              before |-> AURepo_packages,
                              failed |-> ~pacman_spawned \/ ~r.spawned \/ ~r.success,
                              panicked |-> res.panicked,
                              stdout |-> r.stdout]
    /\ UNCHANGED <<OfficialRepo_packages, schedVars>>

NextRepo ==
    \/ OfficialLocalUpdates
    \/ OfficialSyncUpdates
    \/ AURLocalUpdates
    \/ AURSyncUpdates

SpecRepo == InitRepo /\ [][NextRepo]_vars


\* ================================================================= claims
\* A pass of the loop has work (a refresh, a cache read, a print) under way.
InPass == pcMain \in {"sync_lock", "sync_run", "aur_sync", "get_updates", "emit"}

PassDone == pcMain = "sleep"

OfficialOps == {"OfficialRepo.local_updates", "OfficialRepo.sync_updates"}

C3_ExternalFailureNeverStopsLoop == panicCause \notin {"spawn", "poison"}

\* C4: the loop never runs with a local period greater than the network period.
C4_InvertedPeriodsRejected ==
    pcMain \notin {"args", "panicked"} => interval_seconds <= network_interval_seconds

\* The configuration the help text asks for, and a system clock that reads
\* monotonic time.
ValidPeriods == 0 < interval_seconds /\ interval_seconds <= network_interval_seconds

\* C5: on every pass that ran the network refresh, the AUR refresh got as far
\* as enumerating the foreign packages before the pass's local check and print
\* (stated for valid periods and an unstepped clock).
C5_AurRefreshedOnEveryNetworkTick ==
    (/\ ValidPeriods
     /\ wall = time
     /\ pcMain \in {"get_updates", "emit", "sleep"}
     /\ tickLog.net = 1) =>
        tickLog.aurEnum = 1

\* C6: the cache timestamp is None only while sync_aur_database has never been
\* called, and once Some it stays Some and never decreases (stated for valid
\* periods; the clock readings are any).
C6_TimestampSetAndMonotonic ==
    [][ ValidPeriods =>
          /\ aurCalls' > 0 => AUR_CACHE'.ts # <<>>
          /\ AUR_CACHE.ts # <<>> =>
                /\ AUR_CACHE'.ts # <<>>
                /\ AUR_CACHE'.ts[1] >= AUR_CACHE.ts[1] ]_vars

\* What a printed line shows when only the official updates count.
ShowsOnlyOfficial(line, pac) ==
    /\ line.text = pac.count
    /\ pac.count > 0 => line.tooltip = TrimEnd(pac.out) /\ line.class = "has-updates"
    /\ pac.count = 0 => line.class = "updated"

\* C7 (as stated): with --hide-aur the AUR source adds nothing to the printed
\* count and tooltip and is never polled: no sync_aur_database call and no
\* get_aur_updates call on any pass.
C7_HiddenAurNeverPolled ==
    hide_aur =>
        /\ emitted # <<>> => ShowsOnlyOfficial(emitted[1], tickLog.pac)
        /\ tickLog.aurCalls = 0
        /\ tickLog.aurEnum = 0
        /\ tickLog.aurReads = 0

\* C7 (amended): with --hide-aur the AUR source adds nothing to the printed
\* count and tooltip, but it is still polled: every pass reads the cache once
\* and every network pass calls sync_aur_database once.
C7_HiddenAurContributesNothing ==
    hide_aur =>
        /\ emitted # <<>> => ShowsOnlyOfficial(emitted[1], tickLog.pac)
        /\ PassDone => /\ tickLog.aurReads = 1
                       /\ tickLog.due => tickLog.aurCalls = 1

C7_Witness ==
    /\ hide_aur
    /\ emitted # <<>>
    /\ AUR_CACHE.count > 0
    /\ tickLog.aurCalls = 1
    /\ tickLog.pac.count > 0

\* C8: a pass prints exactly one line, and after a pass that ran the network
\* refresh no refresh, cache read or print of the next pass happens before
\* interval_seconds have passed since that pass printed.
C8_FullPeriodAfterNetworkTick ==
    /\ tickLog.emits <= 1
    /\ PassDone => tickLog.emits = 1
    /\ (InPass /\ prevTick # <<>> /\ prevTick[1].net >= 1) =>
          time >= prevTick[1].emitTime[1] + interval_seconds

C8_Witness ==
    /\ pcMain = "emit"
    /\ prevTick # <<>>
    /\ prevTick[1].net = 1
    /\ time = prevTick[1].emitTime[1] + interval_seconds

\* C9: with interval_seconds <= network_interval_seconds, two successive
\* network refreshes of the loop are network_interval_seconds of sleep apart.
C9_NetworkRefreshPeriod ==
    (netGap # <<>> /\ ValidPeriods /\ Alive) =>
        netGap[1] * interval_seconds = network_interval_seconds

\* C10: the local check of a pass starts the moment the pass is due: no
\* network refresh has held the main thread in between (stated for valid
\* periods).
C10_LocalCheckNotDelayed ==
    (ValidPeriods /\ pcMain = "get_updates") => time = tickLog.start


\* C11: get_updates() never runs its `checkupdates --nosync` while the startup
\* thread is inside its `checkupdates` (stated for valid periods).
C11_LocalCheckNeverDuringStartupSync ==
    [][ (ValidPeriods /\ pcMain = "get_updates" /\ pcMain' # "get_updates") =>
            pcBg # "run" ]_vars


\* The cache as the static initializer leaves it (main.rs 25-26).
AurCacheInitial == AUR_CACHE = [ts |-> <<>>, count |-> 0, out |-> EmptyText]

\* C19: with N = network_interval_seconds / interval_seconds >= 1, the passes
\* that run the network refresh are exactly passes N, 2N, 3N, ... (the first
\* pass is 0), two successive ones are N passes apart, and before pass N the
\* AUR cache is still in its initial state and every printed count is the
\* official count alone.
C19_NetworkTicksAtMultiplesOfN ==
    (ValidPeriods /\ (InPass \/ PassDone)) =>
        /\ update_on_iter >= 1
        /\ tickLog.due <=> (tick > 0 /\ tick % update_on_iter = 0)
        /\ tickLog.net > 0 => tickLog.due
        /\ (PassDone /\ tickLog.due) => tickLog.net = 1
        /\ netGap # <<>> => netGap[1] = update_on_iter
        /\ tick < update_on_iter =>
              /\ AurCacheInitial
              /\ emitted # <<>> => emitted[1].text = tickLog.pac.count

C19_Witness ==
    /\ ValidPeriods
    /\ PassDone
    /\ update_on_iter = 2
    /\ tick = 4
    /\ tickLog.net = 1
    /\ netGap = <<2>>
    /\ prevTick # <<>> /\ prevTick[1].net = 0


\* The records of both snapshots.
SnapshotRecords ==
    {OfficialRepo_packages[i] : i \in DOMAIN OfficialRepo_packages}
    \cup {AURepo_packages[i] : i \in DOMAIN AURepo_packages}

\* C14: a record whose versions both parse as semantic versions and whose new
\* version is not greater than the old one (equal, or a downgrade) has the
\* update type Other.
C14_EqualOrDowngradeIsOther ==
    \A p \in SnapshotRecords :
        LET old == SemverParse(p.old_version)
            new == SemverParse(p.new_version)
        IN  (old # <<>> /\ new # <<>> /\ ~SemverGreater(new[1], old[1])) =>
                p.update_type = "Other"


\* A line of the form `name old_version -> new_version`: four
\* whitespace-delimited fields, the third the arrow, nothing around them.
IsRecordLine(line) ==
    /\ line # <<>>
    /\ line[1] # "" /\ line[Len(line)] # ""
    /\ Cardinality({i \in DOMAIN line : line[i] # ""}) = 4
    /\ \E i \in DOMAIN line :
          /\ line[i] = "->"
          /\ Cardinality({j \in 1..(i - 1) : line[j] # ""}) = 2

\* The (name, old_version, new_version) of the record lines of an output, in
\* the order of the lines.
RecordsOf(stdout) ==
    LET ls == SelectSeq(Lines(stdout), IsRecordLine)
    IN  [k \in 1..Len(ls) |-> LET w == Words(ls[k]) IN <<w[1], w[2], w[4]>>]

Fields(packages) ==
    [k \in 1..Len(packages) |->
        <<packages[k].name, packages[k].old_version, packages[k].new_version>>]

RefreshOps == OfficialOps \cup {"AURepo.sync_updates"}

\* C16: after a refresh that succeeded the snapshot is exactly the records of
\* the output's record lines, in their order: other lines are dropped, the
\* refresh does not panic, and nothing of the snapshot before remains.
C16_SuccessfulRefreshReplacesSnapshot ==
    (lastCall.op \in RefreshOps /\ ~lastCall.failed) =>
        /\ ~lastCall.panicked
        /\ lastCall.op \in OfficialOps =>
              Fields(OfficialRepo_packages) = RecordsOf(lastCall.stdout)
        /\ lastCall.op = "AURepo.sync_updates" =>
              Fields(AURepo_packages) = RecordsOf(lastCall.stdout)

C16_Witness ==
    /\ lastCall.op = "OfficialRepo.sync_updates"
    /\ ~lastCall.failed
    /\ Len(lastCall.before) = 2
    /\ \E i \in DOMAIN lastCall.stdout : lastCall.stdout[i] = <<"", "foo", "1.0.0", "->", "1.1.0">>
    /\ OfficialRepo_packages = <<>>


\* A step that is one whole sync_aur_database call.
AurSyncStep == pcMain = "aur_sync" /\ pcMain' # "aur_sync"

\* C17: a sync_aur_database call in which a collaborator failed (`pacman -Qm`
\* did not spawn, or exited non-zero with no output, or the AUR query returned
\* an error) leaves the cached count and the cached listing as they were:
\* whatever the two collaborators answered, if one of them failed and the
\* call left the cache the step shows, count and listing are unchanged.
C17_CollaboratorFailureKeepsCache ==
    [][ (ValidPeriods /\ AurSyncStep) =>
            \A qm \in PacmanQmResults, api \in AurApiResults :
                (/\ AurFailure(AUR_CACHE, wall, network_interval_seconds, qm, api) # "none"
                 /\ AUR_CACHE' = sync_aur_database(AUR_CACHE, wall,
                                                   network_interval_seconds, qm, api)) =>
                    /\ AUR_CACHE'.count = AUR_CACHE.count
                    /\ AUR_CACHE'.out = AUR_CACHE.out ]_vars

AurListed == {AUR_CACHE.out[i] : i \in {j \in DOMAIN AUR_CACHE.out : Len(AUR_CACHE.out[j]) = 4}}

\* C15: between two versions that both carry a revision tag is_version_newer
\* is decided by the revision integers alone: a package is listed as an AUR
\* update only if the revision of its new version is greater than that of its
\* old version.
C15_RevisionTagDecides ==
    \A line \in AurListed :
        (RevisionTag(line[2]) # <<>> /\ RevisionTag(line[4]) # <<>>) =>
            RevisionTag(line[4])[1] > RevisionTag(line[2])[1]


\* The lines of a text that hold a record (an arrow between two versions).
RecordLines(text) ==
    SelectSeq(text, LAMBDA l : \E j \in DOMAIN l : l[j] = "->")

\* What the pass that just printed was given: the official output of its
\* get_updates() and the AUR listing it read from the cache (nothing of it
\* under --hide-aur).
OfficialShown == tickLog.pac.out

AuxiliaryShown == IF hide_aur THEN EmptyText ELSE AUR_CACHE.out

MergedCount == Len(RecordLines(OfficialShown)) + Len(RecordLines(AuxiliaryShown))

\* C12: a pass with no record to show prints the count 0 (as "0", or as the
\* empty text under --no-zero-output) with the tooltip "System updated"; a
\* pass with records prints their number and a tooltip that lists records;
\* no pass prints an empty tooltip.
C12_SentinelOrNonEmptyListing ==
    emitted # <<>> =>
        LET e == emitted[1]
        IN  /\ MergedCount = 0 =>
                  /\ e.class = "updated"
                  /\ e.tooltip = SystemUpdated
                  /\ IF clean_output THEN e.text = "" ELSE e.text = 0
            /\ MergedCount > 0 =>
                  /\ e.class = "has-updates"
                  /\ e.text = MergedCount
                  /\ RecordLines(e.tooltip) # <<>>
            /\ SplitWhitespace(e.tooltip) # <<>>

C12_Witness ==
    /\ emitted # <<>>
    /\ emitted[1].class = "has-updates"
    /\ tickLog.pac.count = 0
    /\ ~IsEmpty(tickLog.pac.out)
    /\ AUR_CACHE.count = 2
    /\ color_semver_updates
    /\ ~tooltip_align

\* C13: the listing a pass prints holds, word for word and in order, the
\* official output followed by the AUR listing, nothing dropped and nothing
\* merged, and the count printed is the number of official records plus the
\* number of AUR records in it.
C13_OfficialThenAuxiliary ==
    (emitted # <<>> /\ emitted[1].class = "has-updates") =>
        LET e == emitted[1]
        IN  /\ SplitWhitespace(e.tooltip) =
                  SplitWhitespace(OfficialShown) \o SplitWhitespace(AuxiliaryShown)
            /\ e.text = Len(RecordLines(OfficialShown)) + Len(RecordLines(AuxiliaryShown))
            /\ e.text = Len(SelectSeq(SplitWhitespace(e.tooltip), LAMBDA w : w = "->"))
            /\ (~tooltip_align /\ ~color_semver_updates) =>
                  RecordLines(e.tooltip) =
                      RecordLines(OfficialShown) \o RecordLines(AuxiliaryShown)

C13_Witness ==
    /\ emitted # <<>>
    /\ ~hide_aur
    /\ tickLog.pac.count = 2
    /\ AUR_CACHE.count = 2
    /\ emitted[1].text = 4
    /\ emitted[1].tooltip[1][1] = "foo"
    /\ emitted[1].tooltip[4][1] = "foo"

\* The records a pass shows, each the sequence of its whitespace-delimited
\* tokens.
ShownRecords ==
    LET ls == OfficialShown \o AuxiliaryShown
        nonblank == SelectSeq(ls, LAMBDA l : Words(l) # <<>>)
    IN  [i \in 1..Len(nonblank) |-> Words(nonblank[i])]

\* The greatest width of a token at field k over all records shown.
ColumnWidth(k) ==
    CHOOSE w \in 0..21 :
        /\ \A i \in DOMAIN ShownRecords : Width(ShownRecords[i][k]) <= w
        /\ \E i \in DOMAIN ShownRecords : Width(ShownRecords[i][k]) = w

\* A token followed by the spaces that fill it up to a width.
Filled(token, width) == <<token>> \o [j \in 1..(width - Width(token)) |-> ""]

====
